---- MODULE Spec2Model ----
(***************************************************************************)
(* Predictive search interaction controller (PredictiveSearchComponent)    *)
(* and the header placeholder typing engine (HeaderSearch).                *)
(*                                                                         *)
(* Strings are sequences of one-character strings.  The DOM state the      *)
(* component reads back (input value, focus, aria-selected markers, the    *)
(* results subtree) is part of the state.  Every event handler runs to     *)
(* completion (the event loop is single threaded), so one action is one    *)
(* handler; an async function is one action per continuation.              *)
(*                                                                         *)
(* Handlers are written as functions from a state record to a state        *)
(* record so that the calls a handler makes compose in program order.      *)
(***************************************************************************)
EXTENDS Integers, Sequences, FiniteSets, TLC

(***************************************************************************)
(* Bounds of the model.                                                    *)
(***************************************************************************)
MaxInFlight == 2   \* requests of the pipelines awaiting their response
MaxLen == 1        \* characters the user types into the input
MaxBurst == 2      \* the burst counter saturates here

SearchWait == 200  \* debounce of search, ms
ResetWait == 100   \* debounce of resetSearch, ms

Chars == {"r", " "}

\* data-placeholder-categories values of the markup (already JSON-parsed).
NoCategories == <<>>
OneCategory == << <<"a">> >>
TwoCategories == << <<"a", "b">>, <<" ", "c">> >>
ShoesBags == << <<"s", "h", "o", "e", "s">>, <<"b", "a", "g", "s">> >>
ThreeCategories == << <<"a">>, <<"b", "c">>, <<"d">> >>

\* The pages explored.  ps, hs: the page holds a predictive-search-component,
\* a header-search; cats, hcats: their data-placeholder-categories; rm:
\* prefers-reduced-motion; sid: data-section-id is set; vp: products were
\* viewed before; counts: the numbers of result items a fragment can hold.
Page(ps, hs, cats, hcats, rm, sid, vp, counts) ==
  [ps |-> ps, hs |-> hs, cats |-> cats, hcats |-> hcats, rm |-> rm,
   sid |-> sid, vp |-> vp, counts |-> counts]

Pages ==
  { Page(TRUE, FALSE, NoCategories, NoCategories, FALSE, TRUE, FALSE, {0, 4}),
    Page(TRUE, TRUE, NoCategories, NoCategories, FALSE, TRUE, FALSE, {0}),
    Page(TRUE, FALSE, NoCategories, NoCategories, FALSE, TRUE, TRUE, {0, 1, 2}),
    Page(TRUE, FALSE, NoCategories, NoCategories, FALSE, FALSE, TRUE, {0}),
    Page(TRUE, FALSE, TwoCategories, NoCategories, FALSE, TRUE, TRUE, {0}),
    Page(TRUE, FALSE, OneCategory, NoCategories, FALSE, TRUE, FALSE, {0}),
    Page(TRUE, FALSE, TwoCategories, NoCategories, TRUE, TRUE, FALSE, {0}),
    Page(TRUE, FALSE, OneCategory, NoCategories, TRUE, TRUE, FALSE, {0}),
    Page(TRUE, FALSE, ShoesBags, NoCategories, FALSE, TRUE, FALSE, {0}),
    Page(FALSE, TRUE, NoCategories, ShoesBags, FALSE, FALSE, FALSE, {0}) }
    \cup { Page(FALSE, TRUE, NoCategories, c, m, FALSE, FALSE, {0}) :
             c \in {NoCategories, OneCategory, TwoCategories},
             m \in BOOLEAN }

\* data-placeholder-prefix and the placeholder attribute of the input.
PrefixAttr == <<"S", "e", "a", "r", "c", "h", " ", "f", "o", "r", " ">>
PlaceholderOriginal == <<"S", "e", "a", "r", "c", "h">>

VARIABLES
  \* component lifecycle and environment
  phase,                 \* "absent", "constructed", "connected",
                         \* "disconnected"
  categoriesAttr,        \* dataset.placeholderCategories
  itemCounts,            \* numbers of result items of a fragment
  reducedMotion,         \* prefersReducedMotion()
  sectionId,             \* dataset.sectionId is set
  viewedProducts,        \* RecentlyViewed.getProducts().length > 0
  location,              \* window.location: ThisPage until a navigation
  \* DOM state
  value,                 \* refs.searchInput.value
  focused,               \* document.activeElement === refs.searchInput
  resetHidden,           \* refs.resetButton.hidden
  classOpen,             \* class predictive-search--open
  ariaExpanded,          \* aria-expanded of the search input
  items,                 \* #allResultsItems: aria-selected of each item
  results,               \* content of refs.predictiveSearchResults
  placeholder,           \* refs.searchInput.placeholder
  \* fields
  dropdownOpen,
  activeFetch,           \* whose token #activeFetch is: 0 is null, i > 0
                         \* the operation inflight[i], -1 an operation
                         \* that has ended
  inflight,              \* the operations awaiting a response, oldest
                         \* first, each with the state of its token
  placeholderCategories,
  placeholderTimeout,    \* 0 is null, else a timer id
  placeholderIndex,
  placeholderCharIndex,
  placeholderIsDeleting,
  \* timers
  phPending,             \* ids of the pending placeholder step timers
  phDelay,               \* delay of the last step timer scheduled
  searchTimer,           \* delay of the pending search debounce, -1: none
  searchArg,             \* event.inputType of the last call is set
  resetTimer,            \* delay of the pending resetSearch debounce, -1: none
  resetArg,              \* keepFocus of the last call
  drawerFrame,           \* the animation frame of #openDrawerSearch
  burst,                 \* input events since search last ran (history)
  \* HeaderSearch
  hPhase,                \* as phase
  hCategoriesAttr,       \* dataset.placeholderCategories
  hCategories,           \* #categories
  hTimeout,              \* #timeout: 0 is null, else a timer id
  hIndex,
  hCharIndex,
  hIsDeleting,
  hText,                 \* refs.placeholder.textContent
  hPending,              \* ids of the pending step timers
  hDelay                 \* delay of the last step timer scheduled

compVars ==
  <<phase, location, value, focused, resetHidden, classOpen, ariaExpanded,
    items, results, placeholder, dropdownOpen, activeFetch, inflight,
    placeholderCategories, placeholderTimeout, placeholderIndex,
    placeholderCharIndex, placeholderIsDeleting, phPending, phDelay>>

envVars ==
  <<categoriesAttr, itemCounts, reducedMotion, sectionId, viewedProducts,
    hCategoriesAttr>>

headerVars ==
  <<hPhase, hCategories, hTimeout, hIndex, hCharIndex, hIsDeleting, hText,
    hPending, hDelay>>

timerVars ==
  <<searchTimer, searchArg, resetTimer, resetArg, drawerFrame, burst>>

vars == <<compVars, envVars, timerVars, headerVars>>

(***************************************************************************)
(* String helpers.                                                         *)
(***************************************************************************)
RECURSIVE TrimStart(_)
TrimStart(s) ==
  IF s # <<>> /\ Head(s) = " " THEN TrimStart(Tail(s)) ELSE s

RECURSIVE TrimEnd(_)
TrimEnd(s) ==
  IF s # <<>> /\ s[Len(s)] = " "
  THEN TrimEnd(SubSeq(s, 1, Len(s) - 1))
  ELSE s

Trim(s) == TrimEnd(TrimStart(s))

\* String.prototype.slice(0, n)
Slice(s, n) == SubSeq(s, 1, IF n < Len(s) THEN n ELSE Len(s))

RECURSIVE FilterNonEmpty(_)
FilterNonEmpty(list) ==
  IF list = <<>> THEN <<>>
  ELSE IF Head(list) = <<>> THEN FilterNonEmpty(Tail(list))
  ELSE <<Head(list)>> \o FilterNonEmpty(Tail(list))

\* parsed.map((item) => String(item).trim()).filter(Boolean)
GetPlaceholderCategories(attr) ==
  FilterNonEmpty([i \in DOMAIN attr |-> Trim(attr[i])])

PlaceholderPrefix == Trim(PrefixAttr)

BuildPlaceholder(typedText) ==
  LET spacer == IF PlaceholderPrefix # <<>>
                   /\ PlaceholderPrefix[Len(PlaceholderPrefix)] # " "
                THEN <<" ">> ELSE <<>>
  IN  TrimEnd(PlaceholderPrefix \o spacer \o typedText)

(***************************************************************************)
(* The state record the handlers work on.                                  *)
(***************************************************************************)
NoDone ==
  [kind |-> "none", resp |-> "none", stale |-> FALSE, aborted |-> FALSE,
   outcome |-> "none"]

\* The state a handler starts from.  The field done is the result of a
\* handler that is the continuation of a request: which operation it
\* belonged to, the response it got and how it ended.
Cur ==
  [ phase |-> phase, location |-> location, value |-> value,
    focused |-> focused, resetHidden |-> resetHidden,
    classOpen |-> classOpen, ariaExpanded |-> ariaExpanded,
    items |-> items, results |-> results, placeholder |-> placeholder,
    dropdownOpen |-> dropdownOpen, activeFetch |-> activeFetch,
    inflight |-> inflight,
    done |-> NoDone,
    placeholderCategories |-> placeholderCategories,
    placeholderTimeout |-> placeholderTimeout,
    placeholderIndex |-> placeholderIndex,
    placeholderCharIndex |-> placeholderCharIndex,
    placeholderIsDeleting |-> placeholderIsDeleting,
    phPending |-> phPending, phDelay |-> phDelay ]

Becomes(t) ==
  /\ phase' = t.phase
  /\ location' = t.location
  /\ value' = t.value
  /\ focused' = t.focused
  /\ resetHidden' = t.resetHidden
  /\ classOpen' = t.classOpen
  /\ ariaExpanded' = t.ariaExpanded
  /\ items' = t.items
  /\ results' = t.results
  /\ placeholder' = t.placeholder
  /\ dropdownOpen' = t.dropdownOpen
  /\ activeFetch' = t.activeFetch
  /\ inflight' = t.inflight
  /\ placeholderCategories' = t.placeholderCategories
  /\ placeholderTimeout' = t.placeholderTimeout
  /\ placeholderIndex' = t.placeholderIndex
  /\ placeholderCharIndex' = t.placeholderCharIndex
  /\ placeholderIsDeleting' = t.placeholderIsDeleting
  /\ phPending' = t.phPending
  /\ phDelay' = t.phDelay

(***************************************************************************)
(* Dropdown visibility.                                                    *)
(***************************************************************************)
\* The setter that leaves aria-expanded of the input as it was.
SetDropdownStateNoAria(s, open) ==
  [s EXCEPT !.dropdownOpen = open, !.classOpen = open]

\* #setDropdownState
SetDropdownState(s, open) ==
  [s EXCEPT !.dropdownOpen = open, !.classOpen = open, !.ariaExpanded = open]

OpenDropdown(s) == SetDropdownState(s, TRUE)

CloseDropdown(s) == SetDropdownState(s, FALSE)

SyncDropdownState(s) == SetDropdownState(s, s.dropdownOpen)

(***************************************************************************)
(* Placeholder typing engine of the predictive search.                     *)
(***************************************************************************)
\* The identity of a new object (timer, token): the least id not in use.
FreshId(used) ==
  CHOOSE i \in 1..(Cardinality(used) + 1) :
    i \notin used /\ \A j \in 1..(i - 1) : j \in used

CategoryAt(cats, i) == IF i + 1 \in DOMAIN cats THEN cats[i + 1] ELSE <<>>

Max0(n) == IF n > 0 THEN n ELSE 0

StopPlaceholderAnimation(s) ==
  IF s.placeholderTimeout # 0
  THEN [s EXCEPT !.phPending = @ \ {s.placeholderTimeout},
                 !.placeholderTimeout = 0]
  ELSE s

PausePlaceholderAnimation(s) ==
  LET t == StopPlaceholderAnimation(s)
  IN  IF Len(t.value) = 0
      THEN [t EXCEPT !.placeholder = PlaceholderOriginal]
      ELSE t

ShouldAnimatePlaceholder(s) ==
  /\ Len(s.value) = 0
  /\ ~s.focused
  /\ Len(s.placeholderCategories) > 0

\* The reset that leaves the category index where it is.
ResetPlaceholderAnimationKeepIndex(s) ==
  [s EXCEPT !.placeholderCharIndex = 0, !.placeholderIsDeleting = FALSE]

\* #resetPlaceholderAnimation
ResetPlaceholderAnimation(s) ==
  [s EXCEPT !.placeholderIndex = 0, !.placeholderCharIndex = 0,
            !.placeholderIsDeleting = FALSE]

\* The step of the engine without the leaving of the Typing state.
AdvancePlaceholderNoHold(s) ==
  IF ~ShouldAnimatePlaceholder(s) THEN PausePlaceholderAnimation(s)
  ELSE
    LET category == CategoryAt(s.placeholderCategories, s.placeholderIndex)
        n == Len(s.placeholderCategories)
        del == s.placeholderIsDeleting
        ci == IF del THEN s.placeholderCharIndex - 1
                     ELSE s.placeholderCharIndex + 1
        wrap == del /\ ci <= 0
        id == FreshId(s.phPending)
    IN  [s EXCEPT
          !.placeholderCharIndex = ci,
          !.placeholderIsDeleting = IF wrap THEN FALSE ELSE del,
          !.placeholderIndex = IF wrap THEN (@ + 1) % n ELSE @,
          !.placeholder = BuildPlaceholder(Slice(category, Max0(ci))),
          !.phDelay = IF wrap THEN 300 ELSE IF del THEN 40 ELSE 85,
          !.phPending = @ \cup {id},
          !.placeholderTimeout = id]

AdvancePlaceholder(s) ==
  IF ~ShouldAnimatePlaceholder(s) THEN PausePlaceholderAnimation(s)
  ELSE
    LET category == CategoryAt(s.placeholderCategories, s.placeholderIndex)
        n == Len(s.placeholderCategories)
        del == s.placeholderIsDeleting
        ci == IF del THEN s.placeholderCharIndex - 1
                     ELSE s.placeholderCharIndex + 1
        wrap == del /\ ci <= 0
        hold == ~del /\ ci >= Len(category)
        id == FreshId(s.phPending)
    IN  [s EXCEPT
          !.placeholderCharIndex = ci,
          !.placeholderIsDeleting =
            IF wrap THEN FALSE ELSE IF hold THEN TRUE ELSE del,
          !.placeholderIndex = IF wrap THEN (@ + 1) % n ELSE @,
          !.placeholder = BuildPlaceholder(Slice(category, Max0(ci))),
          !.phDelay = IF wrap THEN 300 ELSE IF del THEN 40
                      ELSE IF hold THEN 1200 ELSE 85,
          !.phPending = @ \cup {id},
          !.placeholderTimeout = id]

\* Resume that ignores an existing timer handle.
ResumePlaceholderAnimationNoGuard(s) ==
  IF reducedMotion THEN s
  ELSE IF ~ShouldAnimatePlaceholder(s) THEN PausePlaceholderAnimation(s)
  ELSE AdvancePlaceholder(s)

ResumePlaceholderAnimation(s) ==
  IF reducedMotion THEN s
  ELSE IF ~ShouldAnimatePlaceholder(s) THEN PausePlaceholderAnimation(s)
  ELSE IF s.placeholderTimeout # 0 THEN s
  ELSE AdvancePlaceholder(s)

HandlePlaceholderInput(s) ==
  IF Len(s.value) > 0 THEN PausePlaceholderAnimation(s)
  ELSE ResumePlaceholderAnimation(s)

\* The focus, blur and input listeners of #setupPlaceholderAnimation are
\* attached, and their signal is not aborted.
PlaceholderListening(s) ==
  /\ s.phase = "connected"
  /\ ~reducedMotion
  /\ Len(s.placeholderCategories) > 1

SetupPlaceholderAnimation(s) ==
  LET t == [s EXCEPT
              !.placeholderCategories = GetPlaceholderCategories(categoriesAttr)]
      cats == t.placeholderCategories
  IN  IF Len(cats) = 0 THEN t
      ELSE IF reducedMotion \/ Len(cats) = 1
      THEN [t EXCEPT !.placeholder = BuildPlaceholder(cats[1])]
      ELSE ResumePlaceholderAnimation(t)

(***************************************************************************)
(* Focus of the search input: the call and the listeners it triggers.      *)
(***************************************************************************)
\* refs.searchInput.focus(), or the user focusing the input.
FocusInput(s) ==
  IF s.phase # "connected" \/ s.focused THEN s
  ELSE
    LET t == OpenDropdown([s EXCEPT !.focused = TRUE])
    IN  IF PlaceholderListening(t) THEN PausePlaceholderAnimation(t) ELSE t

HandleFocusOut(s, inside) == IF inside THEN s ELSE CloseDropdown(s)

\* refs.searchInput.blur(), or focus moving away; inside: the element that
\* receives focus is inside the component.
BlurInput(s, inside) ==
  IF s.phase # "connected" \/ ~s.focused THEN s
  ELSE
    LET t == [s EXCEPT !.focused = FALSE]
        u == IF PlaceholderListening(t) THEN ResumePlaceholderAnimation(t)
             ELSE t
    IN  HandleFocusOut(u, inside)

(***************************************************************************)
(* Result navigation.                                                      *)
(***************************************************************************)
\* Where the window is: the page of the component, or the page a key press
\* navigated to: the single-result shortcut (data-single-result-url), the
\* link of the result item at index, or the search page for the term q.
Url(to, index, q) == [to |-> to, index |-> index, q |-> q]

ThisPage == Url("page", -1, <<>>)

Unselected(n) == [i \in 1..n |-> FALSE]

\* findIndex that answers 0 when no item is selected.
CurrentIndexZero(s) ==
  IF \E i \in DOMAIN s.items : s.items[i]
  THEN (CHOOSE i \in DOMAIN s.items :
          s.items[i] /\ \A j \in 1..(i - 1) : ~s.items[j]) - 1
  ELSE 0

\* get #currentIndex
CurrentIndex(s) ==
  IF \E i \in DOMAIN s.items : s.items[i]
  THEN (CHOOSE i \in DOMAIN s.items :
          s.items[i] /\ \A j \in 1..(i - 1) : ~s.items[j]) - 1
  ELSE -1

\* The setter that leaves the markers of the other items.
SetCurrentIndexKeep(s, index) ==
  IF Len(s.items) = 0 THEN s
  ELSE FocusInput([s EXCEPT
                     !.items = [i \in DOMAIN s.items |-> @[i] \/ i - 1 = index]])

\* set #currentIndex
SetCurrentIndex(s, index) ==
  IF Len(s.items) = 0 THEN s
  ELSE FocusInput([s EXCEPT !.items = [i \in DOMAIN s.items |-> i - 1 = index]])


(***************************************************************************)
(* Cancellation tokens.  A token is owned by the operation that was issued *)
(* under it; #createAbortController is always followed by the request of   *)
(* that operation, which takes the next place in inflight.                 *)
(***************************************************************************)
\* A new token that leaves the previous one alone.
CreateAbortControllerKeep(s) ==
  [s EXCEPT !.activeFetch = Len(s.inflight) + 1]

CreateAbortController(s) ==
  [s EXCEPT
     !.inflight = [i \in DOMAIN @ |->
                     IF i = s.activeFetch THEN [@[i] EXCEPT !.aborted = TRUE]
                     ELSE @[i]],
     !.activeFetch = Len(s.inflight) + 1]

(***************************************************************************)
(* Query dispatch and reset pipelines.                                     *)
(***************************************************************************)
\* The request of an operation goes out under the token just created; the
\* operations still in flight are from now on superseded (stale).
Issue(s, kind, term) ==
  LET old == [i \in DOMAIN s.inflight |-> [s.inflight[i] EXCEPT !.stale = TRUE]]
      op == [kind |-> kind, term |-> term, pc |-> "fetch",
             aborted |-> FALSE, stale |-> FALSE]
  IN  [s EXCEPT !.inflight = Append(old, op)]

Without(seq, i) == SubSeq(seq, 1, i - 1) \o SubSeq(seq, i + 1, Len(seq))

\* The continuation of operation i ends.
Finish(s, i, resp, outcome) ==
  LET op == s.inflight[i]
  IN  [s EXCEPT
        !.done = [kind |-> op.kind, resp |-> resp, stale |-> op.stale,
                  aborted |-> op.aborted, outcome |-> outcome],
        !.inflight = Without(@, i),
        !.activeFetch = IF @ = i THEN -1 ELSE IF @ > i THEN @ - 1 ELSE @]

\* morph(predictiveSearchResults, markup)
Morph(s, kind, term, n, single) ==
  [s EXCEPT !.results = [kind |-> kind, term |-> term, single |-> single],
            !.items = Unselected(n)]

\* #getSearchResults up to the request
GetSearchResults(s, searchTerm) ==
  IF ~sectionId THEN s
  ELSE Issue(CreateAbortController(s), "query", searchTerm)

\* The then-callback that ignores the state of the token.
QueryFulfilledNoCheck(s, i, n, single) ==
  IF n < 0 THEN Finish(s, i, "empty", "silent")
  ELSE Finish(SyncDropdownState(
                Morph(s, "results", s.inflight[i].term, n, single)),
              i, "ok", "applied")

\* The then-callback that opens the dropdown after the morph.
QueryFulfilledOpen(s, i, n, single) ==
  IF n < 0 THEN Finish(s, i, "empty", "silent")
  ELSE IF s.inflight[i].aborted
  THEN Finish(s, i, "ok", "discarded")
  ELSE Finish(OpenDropdown(
                Morph(s, "results", s.inflight[i].term, n, single)),
              i, "ok", "applied")

\* then-callback of #getSearchResults; n < 0 is an empty markup
QueryFulfilled(s, i, n, single) ==
  IF n < 0 THEN Finish(s, i, "empty", "silent")
  ELSE IF s.inflight[i].aborted
  THEN Finish(s, i, "ok", "discarded")
  ELSE Finish(SyncDropdownState(
                Morph(s, "results", s.inflight[i].term, n, single)),
              i, "ok", "applied")

\* The catch-callback that swallows every error.
QueryRejectedSwallow(s, i) ==
  IF s.inflight[i].aborted
  THEN Finish(s, i, "fail", "discarded")
  ELSE Finish(s, i, "fail", "silent")

\* catch-callback of #getSearchResults
QueryRejected(s, i) ==
  IF s.inflight[i].aborted
  THEN Finish(s, i, "fail", "discarded")
  ELSE Finish(s, i, "fail", "error")

\* #resetSearch up to the first await
ResetSearchStart(s) ==
  LET t == SetCurrentIndex(s, -1)
      u == [t EXCEPT !.value = <<>>, !.resetHidden = TRUE]
  IN  Issue(CreateAbortController(u), "reset", <<>>)

\* The end of #resetSearch that ignores the state of the token.
ResetApplyNoCheck(s, i, n) ==
  LET t == SyncDropdownState(Morph(s, "empty", <<>>, n, FALSE))
  IN  Finish(ResumePlaceholderAnimation(ResetPlaceholderAnimation(t)),
             i, "ok", "applied")

\* #resetSearch from the test of the token to the end
ResetApply(s, i, n) ==
  IF s.inflight[i].aborted THEN Finish(s, i, "ok", "discarded")
  ELSE
    LET t == SyncDropdownState(Morph(s, "empty", <<>>, n, FALSE))
    IN  Finish(ResumePlaceholderAnimation(ResetPlaceholderAnimation(t)),
               i, "ok", "applied")

\* The continuation that blanks the results when the empty-section element
\* is missing.
ResetEmptyArrivedBlank(s, i, found, n) ==
  IF ~found THEN Finish(Morph(s, "empty", <<>>, 0, FALSE), i, "empty", "error")
  ELSE IF viewedProducts
  THEN IF ~sectionId THEN Finish(s, i, "ok", "silent")
       ELSE [s EXCEPT !.inflight[i].pc = "recent"]
  ELSE ResetApply(s, i, n)

\* #resetSearch after the empty-state fragment arrived; found: the fragment
\* holds the .predictive-search-empty-section element
ResetEmptyArrived(s, i, found, n) ==
  IF ~found THEN Finish(s, i, "empty", "error")
  ELSE IF viewedProducts
  THEN IF ~sectionId THEN Finish(s, i, "ok", "silent")
       ELSE [s EXCEPT !.inflight[i].pc = "recent"]
  ELSE ResetApply(s, i, n)

\* #resetSearch after the recently-viewed fragment arrived; n < 0 is an
\* empty markup
ResetRecentArrived(s, i, n) ==
  IF n < 0 THEN Finish(s, i, "empty", "silent") ELSE ResetApply(s, i, n)

\* a rejected request of #resetSearch: the await throws
ResetRejected(s, i) == Finish(s, i, "fail", "error")

\* The handler without the branch for an empty search term.
SearchCallbackNoReset(s, inputType) ==
  IF ~inputType THEN s
  ELSE
    LET t == SetCurrentIndex(s, -1)
    IN  GetSearchResults([t EXCEPT !.resetHidden = FALSE], Trim(t.value))

\* the function debounced as search
SearchCallback(s, inputType) ==
  IF ~inputType THEN s
  ELSE
    LET t == SetCurrentIndex(s, -1)
        searchTerm == Trim(t.value)
    IN  IF Len(searchTerm) = 0 THEN ResetSearchStart(t)
        ELSE GetSearchResults([t EXCEPT !.resetHidden = FALSE], searchTerm)

\* the function debounced as resetSearch
ResetSearchCallback(s, keepFocus) ==
  ResetSearchStart(IF keepFocus THEN FocusInput(s) ELSE s)

\* ArrowDown and Tab without going back to the first item.
NextIndexNoWrap(currentIndex, totalItems) == currentIndex + 1

\* the index ArrowDown and Tab select
NextIndex(currentIndex, totalItems) ==
  IF currentIndex < totalItems - 1 THEN currentIndex + 1 ELSE 0

\* the index ArrowUp and shift-Tab select
PreviousIndex(currentIndex, totalItems) ==
  IF currentIndex > 0 THEN currentIndex - 1 ELSE totalItems - 1

\* Escape that leaves the focus where it is.
EscapeKeyNoBlur(s) == ResetSearchStart(CloseDropdown(s))

\* onSearchKeyDown, the Escape key
EscapeKey(s) == BlurInput(ResetSearchStart(CloseDropdown(s)), FALSE)

\* Enter that does not look for the single-result shortcut.
EnterKeyNoShortcut(s) ==
  IF CurrentIndex(s) >= 0
  THEN [s EXCEPT !.location = Url("item", CurrentIndex(s), <<>>)]
  ELSE [s EXCEPT !.location = Url("search", -1, s.value)]

\* onSearchKeyDown, the Enter key with result items rendered
EnterKey(s) ==
  IF s.results.single
  THEN [s EXCEPT !.location = Url("single", -1, <<>>)]
  ELSE IF CurrentIndex(s) >= 0
  THEN [s EXCEPT !.location = Url("item", CurrentIndex(s), <<>>)]
  ELSE [s EXCEPT !.location = Url("search", -1, s.value)]

\* The handler without the early return on an empty result set.
OnSearchKeyDownNoGuard(s, key) ==
  IF key = "Escape" THEN EscapeKey(s)
  ELSE IF key \in {"ArrowLeft", "ArrowRight"} THEN s
  ELSE
    LET currentIndex == CurrentIndex(s)
        totalItems == Len(s.items)
    IN  CASE key \in {"ArrowDown", "Tab"} ->
               SetCurrentIndex(s, NextIndex(currentIndex, totalItems))
          [] key \in {"ArrowUp", "ShiftTab"} ->
               SetCurrentIndex(s, PreviousIndex(currentIndex, totalItems))
          [] key = "Enter" -> EnterKey(s)
          [] OTHER -> s

\* onSearchKeyDown
OnSearchKeyDown(s, key) ==
  IF key = "Escape" THEN EscapeKey(s)
  ELSE IF Len(s.items) = 0 \/ key \in {"ArrowLeft", "ArrowRight"} THEN s
  ELSE
    LET currentIndex == CurrentIndex(s)
        totalItems == Len(s.items)
    IN  CASE key \in {"ArrowDown", "Tab"} ->
               SetCurrentIndex(s, NextIndex(currentIndex, totalItems))
          [] key \in {"ArrowUp", "ShiftTab"} ->
               SetCurrentIndex(s, PreviousIndex(currentIndex, totalItems))
          [] key = "Enter" -> EnterKey(s)
          [] OTHER -> s

Keys ==
  {"Escape", "ArrowDown", "ArrowUp", "Tab", "ShiftTab", "Enter", "ArrowLeft"}

(***************************************************************************)
(* Initial state: the element is constructed and its markup parsed.        *)
(***************************************************************************)
InitOn(pages) ==
  /\ \E p \in pages :
       /\ phase = IF p.ps THEN "constructed" ELSE "absent"
       /\ hPhase = IF p.hs THEN "constructed" ELSE "absent"
       /\ categoriesAttr = p.cats
       /\ hCategoriesAttr = p.hcats
       /\ itemCounts = p.counts
       /\ reducedMotion = p.rm
       /\ sectionId = p.sid
       /\ viewedProducts = p.vp
       \* the input may be prefilled and focused by the markup
       /\ value \in IF p.ps THEN {<<>>, <<"r">>} ELSE {<<>>}
       /\ focused = (value # <<>>)
  /\ location = ThisPage
  /\ resetHidden = TRUE
  /\ classOpen = FALSE
  /\ ariaExpanded = FALSE
  /\ items = <<>>
  /\ results = [kind |-> "initial", term |-> <<>>, single |-> FALSE]
  /\ placeholder = PlaceholderOriginal
  /\ dropdownOpen = FALSE
  /\ activeFetch = 0
  /\ inflight = <<>>
  /\ placeholderCategories = <<>>
  /\ placeholderTimeout = 0
  /\ placeholderIndex = 0
  /\ placeholderCharIndex = 0
  /\ placeholderIsDeleting = FALSE
  /\ phPending = {}
  /\ phDelay = 0
  /\ searchTimer = -1
  /\ searchArg = FALSE
  /\ resetTimer = -1
  /\ resetArg = FALSE
  /\ drawerFrame = FALSE
  /\ burst = 0
  /\ hCategories = <<>>
  /\ hTimeout = 0
  /\ hIndex = 0
  /\ hCharIndex = 0
  /\ hIsDeleting = FALSE
  /\ hText = <<>>
  /\ hPending = {}
  /\ hDelay = 0

Init == InitOn(Pages)

\* the page is shown and no animation frame callback is waiting
Ready == location = ThisPage /\ ~drawerFrame

Live == phase = "connected" /\ Ready

MayDispatch == Len(inflight) < MaxInFlight

(***************************************************************************)
(* debounce(fn, wait) of @theme/utilities.  A call of the debounced        *)
(* function cancels the invocation that is pending and arms the timer anew *)
(* with the arguments of this call; when the timer expires fn runs once,   *)
(* with the arguments of the last call.                                    *)
(***************************************************************************)
Debounced(timer, arg, wait, a) ==
  /\ timer' = wait
  /\ arg' = a

Expires(timer, arg) ==
  /\ timer >= 0
  /\ timer' = -1
  /\ arg' = FALSE

(***************************************************************************)
(* Lifecycle.                                                              *)
(***************************************************************************)
\* connectedCallback; the document has loaded, so that onDocumentLoaded
\* runs its callback, this.resetSearch(false), at once
ConnectedCallback ==
  /\ phase = "constructed"
  /\ LET a == IF Len(value) > 0 THEN [Cur EXCEPT !.resetHidden = FALSE]
              ELSE Cur
         b == [SetDropdownState(a, FALSE) EXCEPT !.phase = "connected"]
         c == IF b.focused THEN OpenDropdown(b) ELSE b
     IN  Becomes(SetupPlaceholderAnimation(c))
  /\ Debounced(resetTimer, resetArg, ResetWait, FALSE)
  /\ UNCHANGED <<envVars, headerVars, searchTimer, searchArg, drawerFrame, burst>>

DisconnectedCallback ==
  /\ Live
  /\ Becomes([StopPlaceholderAnimation(Cur) EXCEPT
                !.phase = "disconnected", !.focused = FALSE])
  /\ UNCHANGED <<envVars, headerVars, timerVars>>

(***************************************************************************)
(* User events.                                                            *)
(***************************************************************************)
Saturate(n) == IF n < MaxBurst THEN n + 1 ELSE MaxBurst

\* the listeners of the input event: #openDropdown, #handlePlaceholderInput
InputListeners(s) ==
  LET t == OpenDropdown(s)
  IN  IF PlaceholderListening(t) THEN HandlePlaceholderInput(t) ELSE t

\* the user types or deletes a character in the focused input
InputEvent ==
  /\ Live
  /\ focused
  /\ \E v \in {value \o <<c>> : c \in Chars}
             \cup {SubSeq(value, 1, Len(value) - 1)} :
       /\ v # value
       /\ Len(v) <= MaxLen
       /\ Becomes(InputListeners([Cur EXCEPT !.value = v]))
  /\ Debounced(searchTimer, searchArg, SearchWait, TRUE)
  /\ burst' = Saturate(burst)
  /\ UNCHANGED <<envVars, headerVars, resetTimer, resetArg, drawerFrame>>

\* HeaderSearch #openDrawerSearch: a text key pressed outside any field
OpenDrawerSearch ==
  /\ hPhase = "connected"
  /\ Live
  /\ ~focused
  /\ \E typedKey \in {c \in Chars : Trim(<<c>>) # <<>>} :
       /\ Len(value) < MaxLen
       /\ Becomes(InputListeners([Cur EXCEPT !.value = value \o <<typedKey>>]))
  /\ Debounced(searchTimer, searchArg, SearchWait, FALSE)
  /\ burst' = Saturate(burst)
  /\ drawerFrame' = TRUE
  /\ UNCHANGED <<envVars, headerVars, resetTimer, resetArg>>

\* the requestAnimationFrame callback of #openDrawerSearch
DrawerFrame ==
  /\ drawerFrame
  /\ location = ThisPage
  /\ Becomes(FocusInput(Cur))
  /\ drawerFrame' = FALSE
  /\ UNCHANGED <<envVars, headerVars, searchTimer, searchArg, resetTimer,
                 resetArg, burst>>

\* the user moves focus into the input; #handleModalClick does the same
FocusEvent ==
  /\ Live
  /\ ~focused
  /\ Becomes(FocusInput(Cur))
  /\ UNCHANGED <<envVars, headerVars, timerVars>>

\* focus leaves the input
BlurEvent ==
  /\ Live
  /\ focused
  /\ \E inside \in BOOLEAN : Becomes(BlurInput(Cur, inside))
  /\ UNCHANGED <<envVars, headerVars, timerVars>>

\* #handleOutsideClick with a target outside the component
OutsideClick ==
  /\ Live
  /\ dropdownOpen
  /\ Becomes(BlurInput(CloseDropdown(Cur), FALSE))
  /\ UNCHANGED <<envVars, headerVars, timerVars>>

\* #handleCategoryClick on a category link
CategoryClick ==
  /\ Live
  /\ dropdownOpen
  /\ Becomes(CloseDropdown(Cur))
  /\ UNCHANGED <<envVars, headerVars, timerVars>>

\* #handleDialogClose
DialogClose ==
  /\ Live
  /\ MayDispatch
  /\ Becomes(ResetSearchStart(CloseDropdown(Cur)))
  /\ UNCHANGED <<envVars, headerVars, timerVars>>

KeyDown ==
  /\ Live
  /\ focused
  /\ \E key \in Keys :
       /\ key = "Escape" => MayDispatch
       /\ OnSearchKeyDown(Cur, key) # Cur
       /\ Becomes(OnSearchKeyDown(Cur, key))
  /\ UNCHANGED <<envVars, headerVars, timerVars>>

\* a call of the public, debounced resetSearch()
ResetSearchCall ==
  /\ Live
  /\ Debounced(resetTimer, resetArg, ResetWait, TRUE)
  /\ UNCHANGED <<compVars, envVars, headerVars, searchTimer, searchArg,
                 drawerFrame, burst>>

(***************************************************************************)
(* Timers.                                                                 *)
(***************************************************************************)
SearchFire ==
  /\ Ready
  /\ MayDispatch
  /\ Expires(searchTimer, searchArg)
  /\ Becomes(SearchCallback(Cur, searchArg))
  /\ burst' = 0
  /\ UNCHANGED <<envVars, headerVars, resetTimer, resetArg, drawerFrame>>

ResetFire ==
  /\ Ready
  /\ MayDispatch
  /\ Expires(resetTimer, resetArg)
  /\ Becomes(ResetSearchCallback(Cur, resetArg))
  /\ UNCHANGED <<envVars, headerVars, searchTimer, searchArg, drawerFrame,
                 burst>>

PlaceholderFire ==
  /\ Ready
  /\ \E id \in phPending :
       Becomes(AdvancePlaceholder([Cur EXCEPT !.phPending = @ \ {id}]))
  /\ UNCHANGED <<envVars, headerVars, timerVars>>

(***************************************************************************)
(* Responses of the section renderer.                                      *)
(***************************************************************************)
Awaiting(i, kind, pc) ==
  /\ inflight[i].kind = kind
  /\ inflight[i].pc = pc

Markups == {<<n, single>> \in itemCounts \X BOOLEAN : single => n > 0}

QueryResponse ==
  /\ Ready
  /\ \E i \in DOMAIN inflight :
       /\ Awaiting(i, "query", "fetch")
       /\ \/ \E m \in Markups : Becomes(QueryFulfilled(Cur, i, m[1], m[2]))
          \/ Becomes(QueryFulfilled(Cur, i, -1, FALSE))
          \/ Becomes(QueryRejected(Cur, i))
  /\ UNCHANGED <<envVars, headerVars, timerVars>>

ResetEmptyResponse ==
  /\ Ready
  /\ \E i \in DOMAIN inflight :
       /\ Awaiting(i, "reset", "fetch")
       /\ \/ \E n \in itemCounts : Becomes(ResetEmptyArrived(Cur, i, TRUE, n))
          \/ Becomes(ResetEmptyArrived(Cur, i, FALSE, 0))
          \/ Becomes(ResetRejected(Cur, i))
  /\ UNCHANGED <<envVars, headerVars, timerVars>>

ResetRecentResponse ==
  /\ Ready
  /\ \E i \in DOMAIN inflight :
       /\ Awaiting(i, "reset", "recent")
       /\ \/ \E n \in itemCounts : Becomes(ResetRecentArrived(Cur, i, n))
          \/ Becomes(ResetRecentArrived(Cur, i, -1))
          \/ Becomes(ResetRejected(Cur, i))
  /\ UNCHANGED <<envVars, headerVars, timerVars>>

(***************************************************************************)
(* HeaderSearch: the placeholder typing engine of the header.              *)
(***************************************************************************)
HCur ==
  [ phase |-> hPhase, categories |-> hCategories, timeout |-> hTimeout,
    index |-> hIndex, charIndex |-> hCharIndex, isDeleting |-> hIsDeleting,
    text |-> hText, pending |-> hPending, delay |-> hDelay ]

HBecomes(t) ==
  /\ hPhase' = t.phase
  /\ hCategories' = t.categories
  /\ hTimeout' = t.timeout
  /\ hIndex' = t.index
  /\ hCharIndex' = t.charIndex
  /\ hIsDeleting' = t.isDeleting
  /\ hText' = t.text
  /\ hPending' = t.pending
  /\ hDelay' = t.delay

\* #getCategories
GetCategories(attr) == FilterNonEmpty([i \in DOMAIN attr |-> Trim(attr[i])])

\* #buildText
BuildText(typedText) ==
  LET prefix == Trim(PrefixAttr)
      spacer == IF prefix[Len(prefix)] = " " \/ typedText = <<>>
                THEN <<>> ELSE <<" ">>
  IN  IF prefix = <<>> THEN typedText
      ELSE TrimEnd(prefix \o spacer \o typedText)

\* #stop
Stop(h) ==
  IF h.timeout # 0
  THEN [h EXCEPT !.pending = @ \ {h.timeout}, !.timeout = 0]
  ELSE h

\* #pause
Pause(h) == Stop(h)

\* #advance
Advance(h) ==
  LET category == CategoryAt(h.categories, h.index)
      del == h.isDeleting
      ci == IF del THEN h.charIndex - 1 ELSE h.charIndex + 1
      wrap == del /\ ci <= 0
      hold == ~del /\ ci >= Len(category)
      id == FreshId(h.pending)
  IN  [h EXCEPT
        !.charIndex = ci,
        !.isDeleting = IF wrap THEN FALSE ELSE IF hold THEN TRUE ELSE del,
        !.index = IF wrap THEN (@ + 1) % Len(h.categories) ELSE @,
        !.text = BuildText(Slice(category, Max0(ci))),
        !.delay = IF wrap THEN 300 ELSE IF del THEN 40
                  ELSE IF hold THEN 1200 ELSE 85,
        !.pending = @ \cup {id},
        !.timeout = id]

\* #resume
Resume(h) == IF h.timeout # 0 THEN h ELSE Advance(h)

\* the mouseenter, mouseleave, focusin and focusout listeners are attached
HeaderListening ==
  /\ hPhase = "connected"
  /\ ~reducedMotion
  /\ Len(hCategories) > 1

HeaderConnectedCallback ==
  /\ hPhase = "constructed"
  /\ location = ThisPage
  /\ LET h == [HCur EXCEPT !.phase = "connected",
                           !.categories = GetCategories(hCategoriesAttr)]
         cats == h.categories
     IN  HBecomes(IF Len(cats) = 0 THEN [h EXCEPT !.text = Trim(PrefixAttr)]
                  ELSE IF reducedMotion \/ Len(cats) = 1
                  THEN [h EXCEPT !.text = BuildText(cats[1])]
                  ELSE Resume(h))
  /\ UNCHANGED <<compVars, envVars, timerVars>>

HeaderDisconnectedCallback ==
  /\ hPhase = "connected"
  /\ location = ThisPage
  /\ HBecomes([Stop(HCur) EXCEPT !.phase = "disconnected"])
  /\ UNCHANGED <<compVars, envVars, timerVars>>

\* mouseenter or focusin
HeaderPause ==
  /\ HeaderListening
  /\ location = ThisPage
  /\ HBecomes(Pause(HCur))
  /\ UNCHANGED <<compVars, envVars, timerVars>>

\* mouseleave or focusout
HeaderResume ==
  /\ HeaderListening
  /\ location = ThisPage
  /\ HBecomes(Resume(HCur))
  /\ UNCHANGED <<compVars, envVars, timerVars>>

HeaderFire ==
  /\ location = ThisPage
  /\ \E id \in hPending :
       HBecomes(Advance([HCur EXCEPT !.pending = @ \ {id}]))
  /\ UNCHANGED <<compVars, envVars, timerVars>>

Next ==
  \/ ConnectedCallback
  \/ DisconnectedCallback
  \/ InputEvent
  \/ OpenDrawerSearch
  \/ DrawerFrame
  \/ FocusEvent
  \/ BlurEvent
  \/ OutsideClick
  \/ CategoryClick
  \/ DialogClose
  \/ KeyDown
  \/ ResetSearchCall
  \/ SearchFire
  \/ ResetFire
  \/ PlaceholderFire
  \/ QueryResponse
  \/ ResetEmptyResponse
  \/ ResetRecentResponse
  \/ HeaderConnectedCallback
  \/ HeaderDisconnectedCallback
  \/ HeaderPause
  \/ HeaderResume
  \/ HeaderFire

Spec == Init /\ [][Next]_vars

(***************************************************************************)
(* The program with a section renderer that never fails: every request is  *)
(* answered with the fragment expected.                                    *)
(***************************************************************************)
QueryAnswered ==
  /\ Ready
  /\ \E i \in DOMAIN inflight :
       /\ Awaiting(i, "query", "fetch")
       /\ \E m \in Markups : Becomes(QueryFulfilled(Cur, i, m[1], m[2]))
  /\ UNCHANGED <<envVars, headerVars, timerVars>>

ResetEmptyAnswered ==
  /\ Ready
  /\ \E i \in DOMAIN inflight :
       /\ Awaiting(i, "reset", "fetch")
       /\ \E n \in itemCounts : Becomes(ResetEmptyArrived(Cur, i, TRUE, n))
  /\ UNCHANGED <<envVars, headerVars, timerVars>>

ResetRecentAnswered ==
  /\ Ready
  /\ \E i \in DOMAIN inflight :
       /\ Awaiting(i, "reset", "recent")
       /\ \E n \in itemCounts : Becomes(ResetRecentArrived(Cur, i, n))
  /\ UNCHANGED <<envVars, headerVars, timerVars>>

ReliableNext ==
  \/ ConnectedCallback
  \/ DisconnectedCallback
  \/ InputEvent
  \/ OpenDrawerSearch
  \/ DrawerFrame
  \/ FocusEvent
  \/ BlurEvent
  \/ OutsideClick
  \/ CategoryClick
  \/ DialogClose
  \/ KeyDown
  \/ ResetSearchCall
  \/ SearchFire
  \/ ResetFire
  \/ PlaceholderFire
  \/ QueryAnswered
  \/ ResetEmptyAnswered
  \/ ResetRecentAnswered
  \/ HeaderConnectedCallback
  \/ HeaderDisconnectedCallback
  \/ HeaderPause
  \/ HeaderResume
  \/ HeaderFire

ReliableSpec == Init /\ [][ReliableNext]_vars

(***************************************************************************)
(* The page left alone: the components connect, the reset that            *)
(* connectedCallback schedules runs and is answered, and the step timers   *)
(* of the two engines fire.  No user event, no teardown.  A timer of the   *)
(* browser that is pending fires, hence the weak fairness of the steps.    *)
(***************************************************************************)
UndisturbedPages ==
  { Page(TRUE, TRUE, ThreeCategories, ThreeCategories, FALSE, TRUE, FALSE, {0}),
    Page(TRUE, TRUE, ShoesBags, TwoCategories, FALSE, TRUE, TRUE, {0}),
    Page(TRUE, TRUE, OneCategory, OneCategory, FALSE, TRUE, FALSE, {0}),
    Page(TRUE, TRUE, TwoCategories, ShoesBags, TRUE, TRUE, FALSE, {0}) }

UndisturbedNext ==
  \/ ConnectedCallback
  \/ HeaderConnectedCallback
  \/ ResetFire
  \/ ResetEmptyResponse
  \/ ResetRecentResponse
  \/ PlaceholderFire
  \/ HeaderFire

UndisturbedSpec ==
  /\ InitOn(UndisturbedPages)
  /\ [][UndisturbedNext]_vars
  /\ WF_vars(PlaceholderFire)
  /\ WF_vars(HeaderFire)

(***************************************************************************)
(* Properties of the request pipelines.                                    *)
(***************************************************************************)
\* The step is a continuation of operation i: the operation ends, or its
\* first request is answered and it goes on to its second.
Continues(i) ==
  \/ inflight' = Without(inflight, i)
  \/ /\ inflight[i].pc = "fetch"
     /\ inflight' = [inflight EXCEPT ![i].pc = "recent"]

\* C1: last request wins.  Once an operation B was issued while an operation
\* A (a query or a reset) was in flight, no continuation of A changes the
\* results subtree or its items, whichever response arrives first; so the
\* response of a query superseded by a reset leaves the empty state shown.
LastRequestWins ==
  [][\A i \in DOMAIN inflight :
       (inflight[i].stale /\ Continues(i)) =>
          (results' = results /\ items' = items)]_vars

\* A query was superseded, the empty state is shown, and the fragment of the
\* query arrives now: it is discarded.
SupersededQueryDiscarded ==
  \E i \in DOMAIN inflight :
    /\ Awaiting(i, "query", "fetch")
    /\ inflight[i].stale
    /\ results.kind = "empty"
    /\ QueryFulfilled(Cur, i, 0, FALSE).done.outcome = "discarded"
    /\ QueryFulfilled(Cur, i, 0, FALSE).results = results

\* The tokens this controller issued that are not aborted: those of the
\* operations in flight, and the active token of an operation that ended.
NonAbortedTokens ==
  Cardinality({i \in DOMAIN inflight : ~inflight[i].aborted})
    + (IF activeFetch = -1 THEN 1 ELSE 0)

\* C2: at most one token of the controller is not aborted, and the active
\* token is never an aborted one.
AtMostOneLiveToken ==
  /\ NonAbortedTokens <= 1
  /\ activeFetch > 0 => ~inflight[activeFetch].aborted

\* A new token is active and the token it replaced is aborted, its
\* operation still in flight.
TokenReplaced ==
  /\ activeFetch > 1
  /\ \E i \in DOMAIN inflight : i # activeFetch /\ inflight[i].aborted

\* C3: no continuation of a superseded reset, at either of its suspension
\* points, changes the results subtree, resets the placeholder animation or
\* resumes it.
SupersededResetDiscarded ==
  [][\A i \in DOMAIN inflight :
       (inflight[i].kind = "reset" /\ inflight[i].stale /\ Continues(i)) =>
          UNCHANGED <<results, items, placeholder, placeholderIndex,
                      placeholderCharIndex, placeholderIsDeleting,
                      placeholderTimeout, phPending>>]_vars

\* A superseded reset waits for the recently-viewed fragment while the
\* results of the later query are shown and the animation could be
\* restarted: the fragment arrives and is discarded.
SupersededResetAtMerge ==
  \E i \in DOMAIN inflight :
    /\ Awaiting(i, "reset", "recent")
    /\ inflight[i].stale
    /\ results.kind = "results"
    /\ Len(placeholderCategories) > 1
    /\ ResetRecentArrived(Cur, i, 0).done.outcome = "discarded"
    /\ ResetRecentArrived(Cur, i, 0).results = results

(***************************************************************************)
(* Properties of the debounced handlers.                                   *)
(***************************************************************************)
\* The step on which the timer of the debounced search expires: the burst
\* of input events is over and the handler runs.
SearchRuns == searchTimer >= 0 /\ searchTimer' = -1

\* The step issues exactly one operation, of this kind and for this term.
Dispatches(kind, term) ==
  /\ Len(inflight') = Len(inflight) + 1
  /\ inflight'[Len(inflight')].kind = kind
  /\ inflight'[Len(inflight')].term = term

\* C4 as stated: a burst of input events, each less than 200 ms after the
\* one before, ends with exactly one query dispatched, for the term present
\* after the last event.
BurstDispatchesOneQuery ==
  [][SearchRuns => Dispatches("query", Trim(value))]_vars

\* C4, amended: after the burst the handler runs once and dispatches at most
\* one operation, decided by the value the input holds when it runs (the
\* value after the last event, unless a reset cleared the input since):
\* exactly one query, for the trimmed value, when the last event carries an
\* inputType, the trimmed value is not empty and the section id is set; a
\* reset and no query when the last event carries an inputType and the
\* trimmed value is empty; nothing otherwise.
BurstDispatchesForFinalTerm ==
  [][SearchRuns =>
       IF searchArg /\ Trim(value) # <<>>
       THEN IF sectionId THEN Dispatches("query", Trim(value))
            ELSE inflight' = inflight
       ELSE IF searchArg THEN Dispatches("reset", <<>>)
       ELSE inflight' = inflight]_vars

\* Several input events came within the interval, the timer is pending and
\* the handler is about to dispatch the one query, for the final term.
BurstOfInputsPending ==
  /\ burst >= 2
  /\ searchTimer >= 0
  /\ searchArg
  /\ sectionId
  /\ Trim(value) # <<>>
  /\ Ready
  /\ MayDispatch
  /\ Len(SearchCallback(Cur, searchArg).inflight) = Len(inflight) + 1

\* C5 as stated: teardown clears the pending debounce timers, so that no
\* debounced action runs and no query or reset is dispatched after
\* disconnectedCallback.
NoDispatchAfterTeardown ==
  [][phase = "disconnected" =>
       /\ Len(inflight') <= Len(inflight)
       /\ ~(searchTimer >= 0 /\ searchTimer' = -1)
       /\ ~(resetTimer >= 0 /\ resetTimer' = -1)]_vars

(***************************************************************************)
(* Properties of the placeholder typing engines.                           *)
(***************************************************************************)
\* C6: of either engine at most one step timer is pending, the stored
\* handle is non-null exactly when a step is pending, and a resume while a
\* handle exists schedules no timer and takes no animation step.
OneStepTimer ==
  /\ Cardinality(phPending) <= 1
  /\ (placeholderTimeout # 0) <=> (phPending # {})
  /\ Cardinality(hPending) <= 1
  /\ (hTimeout # 0) <=> (hPending # {})
  /\ placeholderTimeout # 0 =>
       LET t == ResumePlaceholderAnimation(Cur)
       IN  /\ t.phPending \subseteq phPending
           /\ t.placeholderIndex = placeholderIndex
           /\ t.placeholderCharIndex = placeholderCharIndex
           /\ t.placeholderIsDeleting = placeholderIsDeleting
  /\ hTimeout # 0 => Resume(HCur) = HCur

\* A step is pending and the animation may run while a reset is about to
\* apply its fragment: it calls resume, which leaves the one timer alone.
ResumeWhileStepPending ==
  /\ placeholderTimeout # 0
  /\ ShouldAnimatePlaceholder(Cur)
  /\ \E i \in DOMAIN inflight :
       /\ Awaiting(i, "reset", "recent")
       /\ ~inflight[i].aborted
       /\ ResetRecentArrived(Cur, i, 0).done.outcome = "applied"
       /\ ResetRecentArrived(Cur, i, 0).phPending = phPending

\* charIndex is within the category the engine is at.
CharIndexInRange(charIndex, categories, index) ==
  /\ 0 <= charIndex
  /\ charIndex <= Len(CategoryAt(categories, index))

\* C7: after every step, pause, resume and reset of either engine
\* 0 <= charIndex <= length(categories[index]); and the step that ends the
\* deleting of a category (the end of a type, hold, delete cycle; a reset of
\* the placeholder ends a request instead) leaves charIndex = 0,
\* isDeleting = false and the index at the next category.
PlaceholderCycle ==
  [][/\ CharIndexInRange(placeholderCharIndex', placeholderCategories',
                         placeholderIndex')
     /\ CharIndexInRange(hCharIndex', hCategories', hIndex')
     /\ (placeholderIsDeleting /\ ~placeholderIsDeleting'
           /\ inflight' = inflight) =>
          /\ placeholderCharIndex' = 0
          /\ placeholderIndex' =
               (placeholderIndex + 1) % Len(placeholderCategories)
     /\ (hIsDeleting /\ ~hIsDeleting') =>
          /\ hCharIndex' = 0
          /\ hIndex' = (hIndex + 1) % Len(hCategories)]_vars

\* The engine of the predictive search went through a whole cycle of its
\* first category and is about to type the second.
CycleCompleted ==
  /\ Len(placeholderCategories) > 1
  /\ placeholderIndex = 1
  /\ placeholderCharIndex = 0
  /\ ~placeholderIsDeleting
  /\ placeholderTimeout # 0
  /\ phDelay = 300

\* C8 as stated: with exactly one category, or with reduced motion
\* preferred, no placeholder step timer is ever scheduled.
StaticPlaceholderNeverAnimates ==
  (phase # "constructed"
     /\ (Len(placeholderCategories) = 1 \/ reducedMotion)) =>
    phPending = {}

\* C9 as stated: while the search input holds focus or has a non-empty
\* value no placeholder step timer is pending.
IdleWhileFocusedOrFilled ==
  (focused \/ Len(value) > 0) => phPending = {}

(***************************************************************************)
(* Properties of the result navigation.                                    *)
(***************************************************************************)
\* C10: the navigation index is in [-1, count - 1], and it is the position
\* of the one item marked selected: no two items are marked.
NavigationIndexInRange ==
  /\ CurrentIndex(Cur) \in (-1)..(Len(items) - 1)
  /\ Cardinality({i \in DOMAIN items : items[i]}) <= 1
  /\ CurrentIndex(Cur) = -1 <=> \A i \in DOMAIN items : ~items[i]

\* The last item of a result set is the selected one.
LastItemSelected ==
  /\ Len(items) > 1
  /\ CurrentIndex(Cur) = Len(items) - 1

\* C11: with count >= 1 items and the index anywhere in [-1, count - 1],
\* ArrowDown and Tab set the index to (index + 1) mod count; ArrowUp and
\* shift-Tab set it to (index - 1 + count) mod count, and to count - 1 when
\* it was -1.
ArrowKeysWrap ==
  Len(items) >= 1 =>
    LET index == CurrentIndex(Cur)
        count == Len(items)
    IN  /\ \A key \in {"ArrowDown", "Tab"} :
             CurrentIndex(OnSearchKeyDown(Cur, key)) = (index + 1) % count
        /\ \A key \in {"ArrowUp", "ShiftTab"} :
             CurrentIndex(OnSearchKeyDown(Cur, key)) =
               IF index = -1 THEN count - 1 ELSE (index - 1 + count) % count

\* Key presses moved the selection to the last of four items, from where
\* ArrowDown goes back to the first.
SelectionAtLastOfFour ==
  /\ Live
  /\ focused
  /\ Len(items) = 4
  /\ CurrentIndex(Cur) = 3
  /\ CurrentIndex(OnSearchKeyDown(Cur, "ArrowDown")) = 0

\* the positions of the items marked aria-selected
Selected(list) == {i \in DOMAIN list : list[i]}

\* C12: at most one result item is marked selected; selecting index i
\* leaves item i marked and no other, and, the component being connected,
\* the search input focused.
SingleSelection ==
  /\ Cardinality(Selected(items)) <= 1
  /\ \A i \in 0..(Len(items) - 1) :
       LET t == SetCurrentIndex(Cur, i)
       IN  /\ Selected(t.items) = {i + 1}
           /\ phase = "connected" => t.focused

\* The third of four items was selected after another one, and the input
\* has the focus.
ThirdOfFourSelected ==
  /\ Len(items) = 4
  /\ Selected(items) = {3}
  /\ focused

\* C13: with the dropdown open, four results rendered and none selected,
\* two ArrowDown presses leave index 1 selected; and Escape, in whatever
\* state the connected component is, leaves the dropdown closed, the search
\* term empty, the input without focus and the navigation index -1.
EscapeEndsNavigation ==
  /\ (dropdownOpen /\ Len(items) = 4 /\ CurrentIndex(Cur) = -1) =>
       CurrentIndex(OnSearchKeyDown(OnSearchKeyDown(Cur, "ArrowDown"),
                                    "ArrowDown")) = 1
  /\ phase = "connected" =>
       LET t == OnSearchKeyDown(Cur, "Escape")
       IN  /\ ~t.dropdownOpen
           /\ ~t.classOpen
           /\ t.value = <<>>
           /\ ~t.focused
           /\ CurrentIndex(t) = -1

\* Two ArrowDown presses selected index 1 of four results for the term
\* typed, the dropdown is open, and Escape is about to be pressed.
SecondOfFourBeforeEscape ==
  /\ Live
  /\ focused
  /\ dropdownOpen
  /\ value # <<>>
  /\ Len(items) = 4
  /\ CurrentIndex(Cur) = 1
  /\ OnSearchKeyDown(Cur, "Escape").value = <<>>

\* where the claim of C14 has Enter navigate to
EnterTarget ==
  IF results.single THEN Url("single", -1, <<>>)
  ELSE IF CurrentIndex(Cur) >= 0 THEN Url("item", CurrentIndex(Cur), <<>>)
  ELSE Url("search", -1, value)

\* C14 as stated: in every rendered state Enter navigates to the
\* single-result shortcut if the render holds one, else activates the link
\* of the selected item if there is one, else navigates to the search page
\* for the raw term.
EnterNavigates ==
  Live => OnSearchKeyDown(Cur, "Enter").location = EnterTarget

\* C14, amended: so it is in every rendered state with at least one result
\* item; with no result item rendered the handler returns at once and
\* changes nothing.
EnterNavigatesWithItems ==
  Live =>
    IF Len(items) > 0
    THEN OnSearchKeyDown(Cur, "Enter").location = EnterTarget
    ELSE OnSearchKeyDown(Cur, "Enter") = Cur

\* Enter was pressed with result items rendered, none of them selected and
\* no shortcut: the window is at the search page for the raw term.
EnteredSearchPage ==
  /\ location = Url("search", -1, value)
  /\ value # <<>>
  /\ Len(items) > 0
  /\ CurrentIndex(Cur) = -1
  /\ ~results.single

(***************************************************************************)
(* Properties of the dropdown.                                             *)
(***************************************************************************)
\* The step applies the fragment of the query i, which is not superseded,
\* to the results subtree.
QueryApplied(i) ==
  /\ inflight[i].kind = "query"
  /\ ~inflight[i].stale
  /\ inflight' = Without(inflight, i)
  /\ \E m \in Markups :
       /\ results' = [kind |-> "results", term |-> inflight[i].term,
                      single |-> m[2]]
       /\ items' = Unselected(m[1])

\* C15 as stated: when the response of a query that is not superseded is
\* applied, the dropdown is open right afterwards, whatever it was before.
AppliedQueryOpensDropdown ==
  [][\A i \in DOMAIN inflight : QueryApplied(i) => dropdownOpen']_vars

\* C15, amended: when the response of a query that is not superseded is
\* applied, the dropdown is right afterwards what it was when the response
\* arrived, open exactly if it was open, and the class and aria-expanded
\* are set to that state again.
AppliedQueryKeepsDropdown ==
  [][\A i \in DOMAIN inflight :
       QueryApplied(i) =>
          /\ dropdownOpen' = dropdownOpen
          /\ classOpen' = dropdownOpen
          /\ ariaExpanded' = dropdownOpen]_vars

\* The dropdown was closed while a query was in flight; its fragment
\* arrives, is applied and the dropdown stays closed.
QueryArrivesWhileClosed ==
  \E i \in DOMAIN inflight :
    /\ Awaiting(i, "query", "fetch")
    /\ ~inflight[i].stale
    /\ ~dropdownOpen
    /\ QueryFulfilled(Cur, i, 0, FALSE).done.outcome = "applied"
    /\ ~QueryFulfilled(Cur, i, 0, FALSE).dropdownOpen

\* C16: in every state from the connection of the component on, the class
\* predictive-search--open of the component and aria-expanded of the input
\* both equal the dropdown state, so none of the three changes alone.
IndicatorsFollowDropdown ==
  phase \in {"connected", "disconnected"} =>
    /\ classOpen = dropdownOpen
    /\ ariaExpanded = dropdownOpen

\* The component is connected and its dropdown is open, the class and
\* aria-expanded set with it.
DropdownOpenWithIndicators ==
  /\ phase = "connected"
  /\ dropdownOpen
  /\ classOpen
  /\ ariaExpanded

(***************************************************************************)
(* Properties of failed requests.                                          *)
(***************************************************************************)
\* C17: when the request of a query or of a reset fails while the token of
\* the operation is not aborted, the operation ends with an error that is
\* thrown on, not swallowed.
FailureSurfaces ==
  \A i \in DOMAIN inflight :
    ~inflight[i].aborted =>
      /\ inflight[i].kind = "query" =>
           QueryRejected(Cur, i).done.outcome = "error"
      /\ inflight[i].kind = "reset" =>
           ResetRejected(Cur, i).done.outcome = "error"

\* A query whose token is live is in flight: its request may fail now, and
\* the failure ends the query with an error.
LiveQueryMayFail ==
  \E i \in DOMAIN inflight :
    /\ Awaiting(i, "query", "fetch")
    /\ ~inflight[i].aborted
    /\ QueryRejected(Cur, i).done.outcome = "error"
    /\ QueryRejected(Cur, i).inflight = Without(inflight, i)

\* The outcomes that the continuation of the operation i can have, over
\* every response that can arrive for it.
Outcomes(i) ==
  IF inflight[i].kind = "query"
  THEN {QueryFulfilled(Cur, i, m[1], m[2]).done.outcome : m \in Markups}
         \cup {QueryFulfilled(Cur, i, -1, FALSE).done.outcome,
               QueryRejected(Cur, i).done.outcome}
  ELSE IF inflight[i].pc = "fetch"
  THEN {ResetRejected(Cur, i).done.outcome,
        ResetEmptyArrived(Cur, i, FALSE, 0).done.outcome}
         \cup {ResetEmptyArrived(Cur, i, TRUE, n).done.outcome :
                 n \in itemCounts}
  ELSE {ResetRejected(Cur, i).done.outcome,
        ResetRecentArrived(Cur, i, -1).done.outcome}
         \cup {ResetRecentArrived(Cur, i, n).done.outcome : n \in itemCounts}

\* C18 as stated: an operation whose token is aborted never ends with an
\* error, whether its response arrives, fails in transport or lacks the
\* expected markup.
SupersededNeverFails ==
  \A i \in DOMAIN inflight :
    inflight[i].aborted => "error" \notin Outcomes(i)

(***************************************************************************)
(* Properties of the reset.                                                *)
(***************************************************************************)
\* The requests of the reset i are answered, each with the empty-state
\* markup of n items, and #resetSearch runs to its end.
ResetCompletes(s, i, n) ==
  LET t == ResetEmptyArrived(s, i, TRUE, n)
  IN  IF Len(t.inflight) = Len(s.inflight)
      THEN ResetRecentArrived(t, i, n)
      ELSE t

\* The rendered results, the search term, whether the clear button is
\* hidden and the navigation index.
RenderedState(s) ==
  << s.results, s.items, s.value, s.resetHidden, CurrentIndex(s) >>

\* C19: two calls of resetSearch in a row, the second after the first is
\* over or while it is in flight, with the responses in either order, leave
\* the results subtree, the search term, the clear button and the
\* navigation index as the second call alone leaves them.
ResetIdempotent ==
  phase = "connected" =>
    \A keepFocus \in BOOLEAN :
      LET t1 == ResetSearchCallback(Cur, keepFocus)
          t2 == ResetSearchCallback(t1, keepFocus)
          a == Len(t1.inflight)
      IN  \A n2 \in itemCounts :
            LET once == RenderedState(ResetCompletes(t1, a, n2))
                early == ResetCompletes(t2, a + 1, n2)
            IN  \A n1 \in itemCounts :
                  LET u1 == ResetSearchCallback(ResetCompletes(t1, a, n1),
                                                keepFocus)
                  IN  /\ RenderedState(ResetCompletes(u1, Len(u1.inflight), n2))
                           = once
                      /\ RenderedState(ResetCompletes(
                                         ResetCompletes(t2, a, n1), a, n2))
                           = once
                      /\ RenderedState(ResetCompletes(early, a, n1)) = once

\* A second reset was dispatched while the first was in flight, over the
\* results of a search with an item selected; answered in either order the
\* two end in the rendered empty state.
SecondResetBeforeFirstResolves ==
  /\ Len(inflight) = 2
  /\ Awaiting(1, "reset", "fetch") /\ inflight[1].aborted
  /\ Awaiting(2, "reset", "fetch") /\ ~inflight[2].aborted
  /\ \E n \in itemCounts :
       /\ n > 0
       /\ ResetCompletes(ResetCompletes(Cur, 1, 0), 1, n).results.kind = "empty"
       /\ ResetCompletes(ResetCompletes(Cur, 2, n), 1, 0).items = Unselected(n)

(***************************************************************************)
(* The scenario of the categories shoes and bags.                          *)
(***************************************************************************)
RECURSIVE PlaceholderSteps(_, _)
\* k more steps of the engine of the predictive search, each one the
\* callback of the timer the step before scheduled.
PlaceholderSteps(s, k) ==
  IF k = 0 THEN s
  ELSE LET t == PlaceholderSteps(s, k - 1)
       IN  AdvancePlaceholder([t EXCEPT !.phPending = @ \ {t.placeholderTimeout}])

RECURSIVE HeaderSteps(_, _)
\* k more steps of the engine of the header search.
HeaderSteps(h, k) ==
  IF k = 0 THEN h
  ELSE LET t == HeaderSteps(h, k - 1)
       IN  Advance([t EXCEPT !.pending = @ \ {t.timeout}])

\* The predictive search is about to be connected with the categories
\* shoes and bags, and nobody touches the input.
ShoesBagsUntouched ==
  /\ phase = "constructed"
  /\ categoriesAttr = ShoesBags
  /\ ~reducedMotion
  /\ ~focused
  /\ value = <<>>

\* The first step of the engine, taken by #setupPlaceholderAnimation.
FirstPlaceholderStep ==
  SetupPlaceholderAnimation([Cur EXCEPT !.phase = "connected"])

\* The header search is about to be connected with the categories shoes
\* and bags.
HeaderShoesBagsUntouched ==
  /\ hPhase = "constructed"
  /\ hCategoriesAttr = ShoesBags
  /\ ~reducedMotion

\* The first step of the engine of the header, taken by connectedCallback.
FirstHeaderStep ==
  Resume([HCur EXCEPT !.phase = "connected",
                      !.categories = GetCategories(hCategoriesAttr)])

SearchForShoe ==
  <<"S", "e", "a", "r", "c", "h", " ", "f", "o", "r", " ",
    "s", "h", "o", "e">>

SearchForShoes == SearchForShoe \o <<"s">>

NoStepTimerAfterTeardown ==
  /\ phase = "disconnected" => phPending = {} /\ placeholderTimeout = 0
  /\ hPhase = "disconnected" => hPending = {} /\ hTimeout = 0

(***************************************************************************)
(* Properties of the steps of the placeholder engines.                     *)
(***************************************************************************)
MaxCategories == 3

\* What a step makes of charIndex ci, the category index and isDeleting,
\* and the delay of the timer it sets, for the current category of length
\* len out of count categories.
StepAsStated(ci, index, del, len, count, ci2, index2, del2, delay) ==
  IF ~del
  THEN /\ ci2 = ci + 1
       /\ index2 = index
       /\ IF ci + 1 = len THEN del2 /\ delay = 1200
                          ELSE ~del2 /\ delay = 85
  ELSE /\ ci2 = ci - 1
       /\ IF ci - 1 = 0
          THEN index2 = (index + 1) % count /\ ~del2 /\ delay = 300
          ELSE index2 = index /\ del2 /\ delay = 40

\* The step either engine would take now is the one stated, and it leaves
\* its successor scheduled.
StepsAsStated ==
  /\ (phase = "connected" /\ ShouldAnimatePlaceholder(Cur)) =>
       LET t == AdvancePlaceholder(Cur)
       IN  /\ StepAsStated(placeholderCharIndex, placeholderIndex,
                           placeholderIsDeleting,
                           Len(CategoryAt(placeholderCategories,
                                          placeholderIndex)),
                           Len(placeholderCategories),
                           t.placeholderCharIndex, t.placeholderIndex,
                           t.placeholderIsDeleting, t.phDelay)
           /\ t.placeholderTimeout \in t.phPending
  /\ (hPhase = "connected" /\ Len(hCategories) > 0) =>
       LET h == Advance(HCur)
       IN  /\ StepAsStated(hCharIndex, hIndex, hIsDeleting,
                           Len(CategoryAt(hCategories, hIndex)),
                           Len(hCategories),
                           h.charIndex, h.index, h.isDeleting, h.delay)
           /\ h.timeout \in h.pending

\* The category index moves to the next category of the list only, but for
\* the reset of page load, which starts the list again.
InListOrder ==
  /\ placeholderIndex' # placeholderIndex =>
       \/ placeholderIndex' = (placeholderIndex + 1) % Len(placeholderCategories)
       \/ inflight' # inflight
  /\ hIndex' # hIndex => hIndex' = (hIndex + 1) % Len(hCategories)

\* The engine of the predictive search shows the k-th category in full.
ShownInFull(k) ==
  /\ k \in DOMAIN placeholderCategories
  /\ placeholderIndex = k - 1
  /\ placeholderCharIndex = Len(placeholderCategories[k])
  /\ placeholder = BuildPlaceholder(placeholderCategories[k])

\* The engine of the header shows the k-th category in full.
HeaderShownInFull(k) ==
  /\ k \in DOMAIN hCategories
  /\ hIndex = k - 1
  /\ hCharIndex = Len(hCategories[k])
  /\ hText = BuildText(hCategories[k])

\* A step of the engine is pending and it has a k-th category.
Running(k) == placeholderTimeout # 0 /\ k <= Len(placeholderCategories)

HeaderRunning(k) == hTimeout # 0 /\ k <= Len(hCategories)

\* C22: every step changes charIndex, the category index and the state as
\* stated and sets the timer of its successor with the delay stated (85,
\* 1200, 40, 300 ms); and an engine that runs undisturbed shows every
\* category in full again and again, moving through the list in order.
StepsAndCycle ==
  /\ []StepsAsStated
  /\ [][InListOrder]_vars
  /\ \A k \in 1..MaxCategories :
       /\ []<>(Running(k) => ShownInFull(k))
       /\ []<>(HeaderRunning(k) => HeaderShownInFull(k))

\* The engine of the predictive search, undisturbed, has reached its third
\* category and shows it in full, the hold before deleting set.
ThirdCategoryShown ==
  /\ placeholderCategories = ThreeCategories
  /\ ShownInFull(3)
  /\ placeholderIsDeleting
  /\ phDelay = 1200
  /\ placeholderTimeout # 0

(***************************************************************************)
(* Properties of the placeholder after a reset.                            *)
(***************************************************************************)
\* The states in which the continuation of the reset i, whose token is
\* live, ends when its last fragment arrives with n items and is applied.
ResetAppliedStates(i) ==
  IF inflight[i].kind # "reset" \/ inflight[i].aborted THEN {}
  ELSE LET ends == IF inflight[i].pc = "fetch"
                   THEN {ResetEmptyArrived(Cur, i, TRUE, n) : n \in itemCounts}
                   ELSE {ResetRecentArrived(Cur, i, n) : n \in itemCounts}
       IN  {t \in ends : t.done.outcome = "applied"}

\* C23 as stated: whenever a reset applies its fragment the placeholder
\* state is categoryIndex = 0, charIndex = 0, isDeleting = false, and the
\* engine is running afterwards exactly when the input is unfocused, its
\* value is empty and there is at least one category.
ResetRestartsPlaceholder ==
  \A i \in DOMAIN inflight : \A t \in ResetAppliedStates(i) :
    /\ t.placeholderIndex = 0
    /\ t.placeholderCharIndex = 0
    /\ ~t.placeholderIsDeleting
    /\ t.placeholderTimeout # 0 <=> ShouldAnimatePlaceholder(t)

\* C23, amended: whenever a reset applies its fragment the placeholder
\* state is reset to its first category and the engine resumed.  The
\* engine is running afterwards exactly when reduced motion is not
\* preferred, the input is unfocused, its value is empty and there is at
\* least one category.  An engine that was running goes on from
\* charIndex = 0; one that was not takes its first step at once, which
\* leaves charIndex = 1, and Deleting if the first category has one
\* character; one that does not run is left at charIndex = 0.
ResetResumesPlaceholder ==
  \A i \in DOMAIN inflight : \A t \in ResetAppliedStates(i) :
    /\ t.placeholderIndex = 0
    /\ t.placeholderTimeout # 0 <=>
         (~reducedMotion /\ ShouldAnimatePlaceholder(t))
    /\ IF t.placeholderTimeout # 0 /\ placeholderTimeout = 0
       THEN /\ t.placeholderCharIndex = 1
            /\ t.placeholderIsDeleting <=>
                 (Len(CategoryAt(t.placeholderCategories, 0)) = 1)
            /\ t.placeholderTimeout \in t.phPending
       ELSE /\ t.placeholderCharIndex = 0
            /\ ~t.placeholderIsDeleting

\* The engine had moved on to its second category when the fragment of a
\* reset arrives; the reset is applied and the engine starts over.
ResetArrivesAtSecondCategory ==
  \E i \in DOMAIN inflight : \E t \in ResetAppliedStates(i) :
    /\ placeholderIndex = 1
    /\ t.placeholderIndex = 0
    /\ t.placeholderTimeout # 0

(***************************************************************************)
(* Properties of an operation that fails before its apply step.            *)
(***************************************************************************)
\* The results subtree with the selection of its items, the raw search
\* term, whether the clear button is hidden, and the dropdown state.
VisibleState(s) ==
  << s.results, s.items, s.value, s.resetHidden, s.dropdownOpen >>

\* The states in which the operation i of s ends when it fails before its
\* apply step: its request is rejected, or the fragment expected is missing.
FailedEnds(s, i) ==
  IF s.inflight[i].kind = "query"
  THEN {QueryRejected(s, i), QueryFulfilled(s, i, -1, FALSE)}
  ELSE IF s.inflight[i].pc = "recent"
  THEN {ResetRejected(s, i), ResetRecentArrived(s, i, -1)}
  ELSE LET t == ResetEmptyArrived(s, i, TRUE, 0)
       IN  {ResetRejected(s, i), ResetEmptyArrived(s, i, FALSE, 0)}
             \cup (IF Len(t.inflight) = Len(s.inflight)
                      /\ t.inflight[i].pc = "recent"
                   THEN {ResetRejected(t, i), ResetRecentArrived(t, i, -1)}
                   ELSE {})

\* The states right after an operation started from the current state: the
\* search callback, or the reset callback, has run up to its request.
Started ==
  {t \in {SearchCallback(Cur, TRUE)}
           \cup {ResetSearchCallback(Cur, keepFocus) : keepFocus \in BOOLEAN} :
     Len(t.inflight) = Len(inflight) + 1}

\* C24 as stated: when a query or a reset fails before its apply step, the
\* results subtree, the raw search term, the clear button, the selection
\* and the dropdown state are those from before the operation started.
FailureRestoresStart ==
  phase = "connected" =>
    \A s \in Started : \A t \in FailedEnds(s, Len(s.inflight)) :
      VisibleState(t) = VisibleState(Cur)

\* C24, amended: the failure of a query or of a reset before its apply step
\* changes nothing of the results subtree, the raw search term, the clear
\* button, the selection and the dropdown state; what the operation did
\* when it started stays: the results subtree and the search term of a
\* query are as before the start, its clear button is shown; the results
\* subtree of a reset is as before the start, the search term is empty and
\* the clear button hidden; and either has cleared the selection.
FailureChangesNothing ==
  /\ \A i \in DOMAIN inflight : \A t \in FailedEnds(Cur, i) :
       VisibleState(t) = VisibleState(Cur)
  /\ phase = "connected" =>
       \A s \in Started : \A t \in FailedEnds(s, Len(s.inflight)) :
         /\ t.results = results
         /\ CurrentIndex(t) = -1
         /\ IF s.inflight[Len(s.inflight)].kind = "query"
            THEN t.value = value /\ ~t.resetHidden
            ELSE t.value = <<>> /\ t.resetHidden

\* A reset was started over the results of a search, with the term typed
\* already cleared; its request fails and the results of the search stay.
ResetFailsOverResults ==
  \E i \in DOMAIN inflight :
    /\ Awaiting(i, "reset", "fetch")
    /\ ~inflight[i].aborted
    /\ results.kind = "results"
    /\ Len(items) > 0
    /\ value = <<>>
    /\ resetHidden
    /\ VisibleState(ResetRejected(Cur, i)) = VisibleState(Cur)

\* The outcomes of the operation i when the fragment it expects is missing
\* from the response: an empty results markup, an empty-state markup
\* without the empty-section element, or no recently viewed markup.
MissingMarkupOutcomes(i) ==
  IF inflight[i].kind = "query"
  THEN {QueryFulfilled(Cur, i, -1, FALSE).done.outcome}
  ELSE IF inflight[i].pc = "fetch"
  THEN {ResetEmptyArrived(Cur, i, FALSE, 0).done.outcome}
  ELSE {ResetRecentArrived(Cur, i, -1).done.outcome}

\* C25 as stated: whenever the response of an operation that is not
\* superseded lacks the fragment expected, the operation ends with an
\* error, not silently.
MissingMarkupIsAnError ==
  \A i \in DOMAIN inflight :
    ~inflight[i].aborted => MissingMarkupOutcomes(i) = {"error"}

(***************************************************************************)
(* Properties of the focus.                                                *)
(***************************************************************************)
\* C26 as stated: resetSearch called with keepFocus = false never gives
\* the focus to the search input, whatever result items are rendered and
\* wherever the focus is.
ResetWithoutKeepFocusNeverFocuses ==
  phase = "connected" =>
    (ResetSearchCallback(Cur, FALSE).focused => focused)

(***************************************************************************)
(* Properties of the keys on an empty result set.                          *)
(***************************************************************************)
\* C27 as stated: with no result item rendered, ArrowDown and Tab set the
\* navigation index to 0.
ArrowDownOnEmptySelectsFirst ==
  (phase = "connected" /\ Len(items) = 0) =>
    \A key \in {"ArrowDown", "Tab"} :
      CurrentIndex(OnSearchKeyDown(Cur, key)) = 0

\* C27, amended: with no result item rendered, ArrowDown and Tab, like
\* every key but Escape, change nothing: the navigation index stays -1.
KeysOnEmptyChangeNothing ==
  (phase = "connected" /\ Len(items) = 0) =>
    \A key \in Keys \ {"Escape"} :
      /\ OnSearchKeyDown(Cur, key) = Cur
      /\ CurrentIndex(OnSearchKeyDown(Cur, key)) = -1

\* The dropdown is open over an applied fragment that holds no result
\* item, and the input has the focus: the keys arrive here.
EmptyResultsOpen ==
  /\ phase = "connected"
  /\ focused
  /\ dropdownOpen
  /\ results.kind = "results"
  /\ Len(items) = 0
  /\ OnSearchKeyDown(Cur, "ArrowDown") = Cur

(***************************************************************************)
(* Properties of the closed dropdown.                                      *)
(***************************************************************************)
\* The step is the callback of the search debounce, or the callback of the
\* resetSearch debounce called with keepFocus = false.
DebounceFires ==
  \/ searchTimer >= 0 /\ searchTimer' = -1
  \/ resetTimer >= 0 /\ resetTimer' = -1 /\ ~resetArg

\* The step is the continuation of a response.
ResponseArrives == \E i \in DOMAIN inflight : Continues(i)

\* C28 as stated: with the dropdown closed and the input without focus, no
\* debounce callback and no response gives the input the focus or opens
\* the dropdown (the callback of resetSearch with keepFocus = true, which
\* is to focus the input, left aside).
ClosedStaysClosed ==
  [][(~dropdownOpen /\ ~focused /\ (DebounceFires \/ ResponseArrives)) =>
       (~dropdownOpen' /\ ~focused')]_vars

(***************************************************************************)
(* Consistency of the results with the input.                              *)
(***************************************************************************)
\* The component is connected with its section id, no debounce timer and
\* no animation frame is pending and no request is in flight.
Settled ==
  /\ phase = "connected"
  /\ sectionId
  /\ Ready
  /\ searchTimer = -1
  /\ resetTimer = -1
  /\ inflight = <<>>

\* C29 as stated, for a value that is not empty (the reset of page load
\* empties the input, so that such a value comes from an input event
\* since): once every timer has fired and every request was answered
\* without failure, the results are those for the trimmed value, or the
\* empty state if that is empty, and the clear button is shown.
ResultsFollowInput ==
  (Settled /\ value # <<>>) =>
    /\ IF Trim(value) = <<>> THEN results.kind = "empty"
       ELSE results.kind = "results" /\ results.term = Trim(value)
    /\ ~resetHidden

====
